---- MODULE Spec2Model ----
(***************************************************************************)
(* VICAPTCHA: image-selection CAPTCHA with a proof-of-work token.          *)
(* Model of src/server.py (Flask handlers api_captcha, api_verify,         *)
(* api_check over the in-memory store ACTIVE_CHALLENGES) and of            *)
(* src/pycap.py (PyCap.issue / PyCap.verify).                              *)
(*                                                                         *)
(* Representation.                                                         *)
(*  - A Python str is a sequence of character codes where the code reads   *)
(*    its characters (PoW challenge, nonce, digest), and a TLA+ string     *)
(*    where it is only compared or copied (file names, error texts).       *)
(*  - A dict is a sequence of <<key, value>> pairs in insertion order.     *)
(*  - uuid4() hands out fresh tokens: the naturals 1, 2, 3, ... in call    *)
(*    order (uuid_next is the next one).                                   *)
(*  - Time is counted in ticks of 180 s (the ttl of PY_CAP).               *)
(***************************************************************************)
EXTENDS Integers, Sequences, FiniteSets, TLC

VARIABLES
    disk,               \* IMAGES_ROOT as os.path.isdir / os.listdir show it
    DEFAULT_DIFFICULTY, \* server.py:41, the configured PoW difficulty
    ACTIVE_CHALLENGES,  \* server.py:38, captcha_id -> record
    now,                \* time.time(), in ticks
    uuid_next,          \* the next token uuid4() returns
    pow_issued,         \* captcha_id -> the Challenge PY_CAP.issue() returned for it
    captcha_log,        \* the responses api_captcha has returned, oldest first
    pc,                 \* per request thread: where its handler stands
    data,               \* per request thread: the request body (request.get_json)
    record,             \* per request thread: the handler's local `record`
    result              \* per request thread: the response returned

vars == <<disk, DEFAULT_DIFFICULTY, ACTIVE_CHALLENGES, now, uuid_next,
          pow_issued, captcha_log, pc, data, record, result>>

----------------------------------------------------------------------------
(* Bounds of the model *)

\* GET /api/captcha requests served in one behaviour
MaxIssue == 1
\* the clock stops after this many ticks
MaxTime == 2
\* the largest PoW difficulty configured or requested
MaxDifficulty == 6

----------------------------------------------------------------------------
(* Generic helpers for Python values *)

Min(a, b) == IF a <= b THEN a ELSE b
Max(a, b) == IF a >= b THEN a ELSE b

Range(s) == {s[i] : i \in 1..Len(s)}

\* list comprehension [x for x in s if x in keep]
RECURSIVE FilterSeq(_, _)
FilterSeq(s, keep) ==
    IF s = <<>> THEN <<>>
    ELSE (IF Head(s) \in keep THEN <<Head(s)>> ELSE <<>>) \o FilterSeq(Tail(s), keep)

\* the elements of s at the positions in idx, in the order of s
RECURSIVE AtPositions(_, _, _)
AtPositions(s, idx, i) ==
    IF i > Len(s) THEN <<>>
    ELSE (IF i \in idx THEN <<s[i]>> ELSE <<>>) \o AtPositions(s, idx, i + 1)

\* dict helpers: a dict is a sequence of <<key, value>> pairs
Keys(d) == [i \in 1..Len(d) |-> d[i][1]]
Get(d, k) == d[CHOOSE i \in 1..Len(d) : d[i][1] = k][2]

----------------------------------------------------------------------------
(* src/pycap.py *)

\* ttl_seconds=180 (server.py:42); one tick of the model's clock is one ttl
ttl_seconds == 180
TickSeconds == ttl_seconds

\* expires_at=9999999999.0 (server.py:177), in ticks: 55555555 * 180 =
\* 9999999900 <= 9999999999 < 55555556 * 180, so for a clock that reads whole
\* ticks `time.time() > 9999999999.0` is `now > 55555555`
FAR_FUTURE == 55555555

\* the character ':' of f"{ch.challenge}:{nonce}"; hex digits are 0..15
Colon == 16

\* len(hashlib.sha256(...).hexdigest())
DigestLen == 64

\* class PyCap: __init__
PyCap(difficulty, ttl) == [_difficulty |-> difficulty, _ttl |-> ttl \div TickSeconds]

\* PY_CAP = PyCap(difficulty=DEFAULT_DIFFICULTY, ttl_seconds=180)
PY_CAP == PyCap(DEFAULT_DIFFICULTY, ttl_seconds)

\* @dataclass Challenge
Challenge(challenge, difficulty, expires_at) ==
    [challenge |-> challenge, difficulty |-> difficulty, expires_at |-> expires_at]

\* PyCap.issue: token is what secrets.token_hex(16) returned, time is time.time()
issue(self, token, time) == Challenge(token, self._difficulty, time + self._ttl)

\* SHA-256 is replaced by a small public deterministic function of the whole
\* input string with the same shape of result: DigestLen hex digits.  Its number
\* of leading zero digits is Mix(s) % 8 and the digit after them is non-zero.
RECURSIVE MixFrom(_, _)
MixFrom(s, i) == IF i > Len(s) THEN 0 ELSE i * (s[i] + 1) + MixFrom(s, i + 1)
Mix(s) == MixFrom(s, 1)

\* PyCap._hash
_hash(s) ==
    [i \in 1..DigestLen |-> IF i <= Mix(s) % 8 THEN 0 ELSE 1 + ((Mix(s) + i) % 15)]

\* "0" * n
Zeros(n) == [i \in 1..n |-> 0]

\* str.startswith
startswith(s, prefix) ==
    /\ Len(prefix) <= Len(s)
    /\ SubSeq(s, 1, Len(prefix)) = prefix

\* PyCap.verify with the expiry test written `>=`
verify_strict_expiry(self, ch, nonce, time) ==
    IF time >= ch.expires_at
    THEN <<FALSE, "Challenge expired">>
    ELSE IF ~startswith(_hash(ch.challenge \o <<Colon>> \o nonce), Zeros(ch.difficulty))
         THEN <<FALSE, "Insufficient PoW difficulty">>
         ELSE <<TRUE, "ok">>

\* PyCap.verify, at clock reading `time`; returns the pair (ok, reason)
verify(self, ch, nonce, time) ==
    IF time > ch.expires_at
    THEN <<FALSE, "Challenge expired">>
    ELSE IF ~startswith(_hash(ch.challenge \o <<Colon>> \o nonce), Zeros(ch.difficulty))
         THEN <<FALSE, "Insufficient PoW difficulty">>
         ELSE <<TRUE, "ok">>

----------------------------------------------------------------------------
(* src/server.py: the catalog *)

\* A directory entry of IMAGES_ROOT is [name, isdir, files]; a file name is the
\* pair os.path.splitext gives, <<stem, extension>>; a category name is the
\* sequence of its parts, "_illusion" and "_" being parts of their own.

\* str.lower on the extensions that occur
lower(ext) ==
    CASE ext = ".PNG" -> ".png"
      [] ext = ".JPG" -> ".jpg"
      [] OTHER -> ext

ImageExtensions == {".png", ".jpg", ".jpeg", ".webp"}

\* the list comprehension of _discover_categories: the image files of a directory
ImageFiles(files) ==
    FilterSeq(files, {f \in Range(files) : lower(f[2]) \in ImageExtensions})

RECURSIVE DiscoverFrom(_, _)
DiscoverFrom(entries, i) ==
    IF i > Len(entries) THEN <<>>
    ELSE (IF entries[i].isdir /\ ImageFiles(entries[i].files) # <<>>
          THEN << <<entries[i].name, ImageFiles(entries[i].files)>> >>
          ELSE <<>>) \o DiscoverFrom(entries, i + 1)

\* _discover_categories without the `if files:` test of line 30
RECURSIVE DiscoverAllFrom(_, _)
DiscoverAllFrom(entries, i) ==
    IF i > Len(entries) THEN <<>>
    ELSE (IF entries[i].isdir
          THEN << <<entries[i].name, ImageFiles(entries[i].files)>> >>
          ELSE <<>>) \o DiscoverAllFrom(entries, i + 1)

_discover_categories_keeps_empty(root) ==
    IF ~root.isdir THEN <<>> ELSE DiscoverAllFrom(root.entries, 1)

\* _discover_categories(root_dir): category -> image file names, as a dict
_discover_categories(root) ==
    IF ~root.isdir THEN <<>> ELSE DiscoverFrom(root.entries, 1)

\* target_category.replace("_illusion", "").replace("_", " ")
RECURSIVE display_label(_)
display_label(name) ==
    IF name = <<>> THEN <<>>
    ELSE (CASE Head(name) = "_illusion" -> <<>>
            [] Head(name) = "_" -> <<" ">>
            [] OTHER -> <<Head(name)>>) \o display_label(Tail(name))

----------------------------------------------------------------------------
(* src/server.py: api_captcha *)

\* what secrets.token_hex(16) may return (hex strings)
Tokens == {<<1>>, <<2>>}

\* random.sample(population, k): the k-element selections.  The order of a
\* selection is the population's: the grid is shuffled afterwards and the ids
\* given to the selected images are fresh random tokens, so the order in which
\* sample lists them shows in no response and in no stored record.
sample(population, k) ==
    {AtPositions(population, idx, 1) :
        idx \in {J \in SUBSET (1..Len(population)) : Cardinality(J) = k}}

\* random.sample raises ValueError when k is negative or exceeds the population
sample_raises(population, k) == k < 0 \/ k > Len(population)

\* lines 90-95: every (category, file) of the other categories
RECURSIVE non_target_from(_, _, _)
non_target_from(categories, target_category, i) ==
    IF i > Len(categories) THEN <<>>
    ELSE (IF categories[i][1] = target_category THEN <<>>
          ELSE [j \in 1..Len(categories[i][2]) |->
                    <<categories[i][1], categories[i][2][j]>>])
         \o non_target_from(categories, target_category, i + 1)

\* line 79 without the cap of 4
max_correct_uncapped(files) == Min(Len(files), 6)

max_correct_possible(files) == Min(Min(4, Len(files)), 6)
min_correct_required(files) == IF max_correct_possible(files) >= 2 THEN 2 ELSE 1

\* lines 97-106 with the test of line 98 written `<=`
fill_choices_le(categories, target_category, target_files) ==
    LET files == Get(categories, target_category)
        non_target == non_target_from(categories, target_category, 1)
        needed_non_target == 6 - Len(target_files)
    IN  IF Len(non_target) <= needed_non_target
        THEN {[j \in 1..Len(extra) |-> <<target_category, extra[j]>>] :
                extra \in sample(FilterSeq(files, Range(files) \ Range(target_files)),
                                 Min(needed_non_target,
                                     Max(0, Len(files) - Len(target_files))))}
        ELSE sample(non_target, needed_non_target)

\* lines 97-106 with line 101 sampling from all of the target category's
\* files, the chosen target_files included
fill_choices_reuses_target(categories, target_category, target_files) ==
    LET files == Get(categories, target_category)
        non_target == non_target_from(categories, target_category, 1)
        needed_non_target == 6 - Len(target_files)
    IN  IF Len(non_target) < needed_non_target
        THEN {[j \in 1..Len(extra) |-> <<target_category, extra[j]>>] :
                extra \in sample(files,
                                 Min(needed_non_target,
                                     Max(0, Len(files) - Len(target_files))))}
        ELSE sample(non_target, needed_non_target)

\* lines 97-106 with the other categories' images added after the target
\* category's on the shortage path
fill_choices_tops_up(categories, target_category, target_files) ==
    LET files == Get(categories, target_category)
        non_target == non_target_from(categories, target_category, 1)
        needed_non_target == 6 - Len(target_files)
    IN  IF Len(non_target) < needed_non_target
        THEN {[j \in 1..Len(extra) |-> <<target_category, extra[j]>>]
                \o SubSeq(non_target, 1, Min(Len(non_target),
                                             needed_non_target - Len(extra))) :
                extra \in sample(FilterSeq(files, Range(files) \ Range(target_files)),
                                 Min(needed_non_target,
                                     Max(0, Len(files) - Len(target_files))))}
        ELSE sample(non_target, needed_non_target)

\* lines 97-106: the possible values of `fill`, a list of (category, file)
fill_choices(categories, target_category, target_files) ==
    LET files == Get(categories, target_category)
        non_target == non_target_from(categories, target_category, 1)
        needed_non_target == 6 - Len(target_files)
    IN  IF Len(non_target) < needed_non_target
        THEN {[j \in 1..Len(extra) |-> <<target_category, extra[j]>>] :
                extra \in sample(FilterSeq(files, Range(files) \ Range(target_files)),
                                 Min(needed_non_target,
                                     Max(0, Len(files) - Len(target_files))))}
        ELSE sample(non_target, needed_non_target)

\* whether the random.sample call of lines 100-103 raises
fill_raises(categories, target_category, target_files) ==
    LET files == Get(categories, target_category)
        needed_non_target == 6 - Len(target_files)
    IN  /\ Len(non_target_from(categories, target_category, 1)) < needed_non_target
        /\ sample_raises(FilterSeq(files, Range(files) \ Range(target_files)),
                         Min(needed_non_target, Max(0, Len(files) - Len(target_files))))

\* lines 108-126: the grid before the shuffle; ids are uuid4() in call order
images_before_shuffle(target_category, target_files, fill, first_id) ==
    [i \in 1..Len(target_files) |->
        [id |-> first_id + i - 1,
         url |-> <<"/images", target_category, target_files[i]>>]]
    \o
    [j \in 1..Len(fill) |->
        [id |-> first_id + Len(target_files) + j - 1,
         url |-> <<"/images", fill[j][1], fill[j][2]>>]]

\* lines 112-118: correct_ids
correct_ids_of(target_files, first_id) ==
    {first_id + i - 1 : i \in 1..Len(target_files)}

\* dict item assignment d[k] = v on the store
Put(store, k, v) == [x \in DOMAIN store \cup {k} |-> IF x = k THEN v ELSE store[x]]

\* jsonify(...) of api_captcha's success path
captcha_response(captcha_id, target_category, target_files, images, ch) ==
    [status |-> 200,
     body |-> [captcha_id |-> captcha_id,
               prompt |-> <<"Which images contain ">> \o display_label(target_category)
                          \o <<"?">>,
               select_count |-> Len(target_files),
               images |-> images,
               pow |-> [challenge |-> ch.challenge, difficulty |-> ch.difficulty,
                        algo |-> "sha256-prefix-zeros"]]]

\* GET /api/captcha: one request, from the catalog scan to the response;
\* tokens are the values secrets.token_hex may return for the PoW challenge
captcha_request(tokens) ==
    /\ LET categories == _discover_categories(disk) IN
       IF categories = <<>>
       THEN /\ captcha_log' = Append(captcha_log,
                [status |-> 500, body |-> [error |-> "No categories with images found."]])
            /\ UNCHANGED <<ACTIVE_CHALLENGES, uuid_next, pow_issued>>
       ELSE \E target_category \in Range(Keys(categories)) :
            LET files == Get(categories, target_category) IN
            IF min_correct_required(files) > max_correct_possible(files)
            THEN \* random.randint(a, b) with a > b raises ValueError
                 /\ captcha_log' = Append(captcha_log,
                        [status |-> 500, body |-> [raised |-> "ValueError"]])
                 /\ UNCHANGED <<ACTIVE_CHALLENGES, uuid_next, pow_issued>>
            ELSE \E select_count \in
                        min_correct_required(files)..max_correct_possible(files) :
                 \E target_files \in sample(files, Min(select_count, Len(files))) :
                 IF fill_raises(categories, target_category, target_files)
                 THEN /\ captcha_log' = Append(captcha_log,
                             [status |-> 500, body |-> [raised |-> "ValueError"]])
                      /\ UNCHANGED <<ACTIVE_CHALLENGES, uuid_next, pow_issued>>
                 ELSE
                 \E fill \in fill_choices(categories, target_category, target_files) :
                 \E order \in Permutations(1..(Len(target_files) + Len(fill))) :
                 \E token \in tokens :
                 LET listed == images_before_shuffle(target_category, target_files,
                                                     fill, uuid_next)
                     images == [i \in 1..Len(listed) |-> listed[order[i]]]
                     captcha_id == uuid_next + Len(listed)
                     ch == issue(PY_CAP, token, now)
                 IN  /\ ACTIVE_CHALLENGES' = Put(ACTIVE_CHALLENGES, captcha_id,
                            [correct_ids |-> correct_ids_of(target_files, uuid_next),
                             pow_challenge |-> ch.challenge,
                             difficulty |-> ch.difficulty])
                     /\ pow_issued' = Put(pow_issued, captcha_id, ch)
                     /\ uuid_next' = captcha_id + 1
                     /\ captcha_log' = Append(captcha_log,
                            captcha_response(captcha_id, target_category,
                                             target_files, images, ch))
    /\ UNCHANGED <<disk, DEFAULT_DIFFICULTY, now, pc, data, record, result>>

\* GET /api/captcha, served as long as fewer than MaxIssue puzzles were asked for
api_captcha ==
    /\ Len(captcha_log) < MaxIssue
    /\ captcha_request(Tokens)

----------------------------------------------------------------------------
(* src/server.py: the request threads (app.run serves each request on a     *)
(* thread of its own; a handler is split where it reads or writes the      *)
(* shared dict ACTIVE_CHALLENGES)                                          *)

Threads == {"t1", "t2"}

\* data.get("captcha_id") of a body without one (None): falsy
NoneId == 0
\* an id the client made up: never a token uuid4() returned
Forged == -1

\* the nonces a client submits; <<>> is "" (also what a body without
\* pow.nonce yields)
Nonces == {<<>>, <<0>>, <<7>>}

\* the successful responses of api_captcha so far
Issued == {captcha_log[i].body : i \in {k \in 1..Len(captcha_log) : captcha_log[k].status = 200}}

\* the captcha ids returned so far
IssuedIds == {b.captcha_id : b \in Issued}

\* the image ids of the grid returned with captcha id
GridIds(id) ==
    UNION {{b.images[j].id : j \in 1..Len(b.images)} : b \in {x \in Issued : x.captcha_id = id}}

\* the request bodies a client may send to /api/verify or /api/check: no id, a made-up id or an issued one,
\* with any selection among the images it was shown for that id and a made-up
\* image id; only /api/verify reads pow.nonce
Bodies(op) ==
    UNION {[op : {op},
            captcha_id : {id},
            selected_ids : SUBSET (GridIds(id) \cup {Forged}),
            nonce : IF op = "verify" THEN Nonces ELSE {<<>>}] : id \in {NoneId, Forged} \cup IssuedIds}

NoData == [op |-> "none", captcha_id |-> NoneId, selected_ids |-> {}, nonce |-> <<>>]

InvalidCaptcha ==
    [status |-> 400,
     body |-> [success |-> FALSE, error |-> <<"Invalid or expired captcha.">>]]

\* line 165 falling back to PyCap's own default difficulty (pycap.py:23)
enforced_difficulty_or_4(rec) ==
    IF rec.difficulty # 0 THEN rec.difficulty ELSE 4

\* line 165: int(record["difficulty"]) or DEFAULT_DIFFICULTY
enforced_difficulty(rec) ==
    IF rec.difficulty # 0 THEN rec.difficulty ELSE DEFAULT_DIFFICULTY

\* line 177: the Challenge that api_verify hands to PY_CAP.verify
verify_challenge(rec) ==
    Challenge(rec.pow_challenge, enforced_difficulty(rec), FAR_FUTURE)

\* lines 167-180 with the nonce test (172-175) ahead of the count test (168)
verify_checks_nonce_first(rec, body, time) ==
    IF body.nonce = <<>>
    THEN <<[status |-> 400,
            body |-> [success |-> FALSE, error |-> <<"Missing PoW nonce.">>]]>>
    ELSE IF Cardinality(body.selected_ids) # Cardinality(rec.correct_ids)
    THEN <<[status |-> 400,
            body |-> [success |-> FALSE,
                      error |-> <<"Must select exactly ",
                                  ToString(Cardinality(rec.correct_ids)),
                                  " images, got ",
                                  ToString(Cardinality(body.selected_ids)), ".">>]]>>
    ELSE IF ~verify(PY_CAP, verify_challenge(rec), body.nonce, time)[1]
    THEN <<[status |-> 400,
            body |-> [success |-> FALSE,
                      error |-> <<verify(PY_CAP, verify_challenge(rec),
                                         body.nonce, time)[2]>>]]>>
    ELSE <<>>

\* lines 167-180: the failure response of the checks made on the record read,
\* or <<>> when all of them pass
verify_checks(rec, body, time) ==
    IF Cardinality(body.selected_ids) # Cardinality(rec.correct_ids)
    THEN <<[status |-> 400,
            body |-> [success |-> FALSE,
                      error |-> <<"Must select exactly ",
                                  ToString(Cardinality(rec.correct_ids)),
                                  " images, got ",
                                  ToString(Cardinality(body.selected_ids)), ".">>]]>>
    ELSE IF body.nonce = <<>>
    THEN <<[status |-> 400,
            body |-> [success |-> FALSE, error |-> <<"Missing PoW nonce.">>]]>>
    ELSE IF ~verify(PY_CAP, verify_challenge(rec), body.nonce, time)[1]
    THEN <<[status |-> 400,
            body |-> [success |-> FALSE,
                      error |-> <<verify(PY_CAP, verify_challenge(rec),
                                         body.nonce, time)[2]>>]]>>
    ELSE <<>>

\* line 185 accepting any selection that shares an image with correct_ids
answer_overlaps(selected_ids, correct_ids) == selected_ids \cap correct_ids # {}

\* line 185: selected_ids == correct_ids
answer_matches(selected_ids, correct_ids) == selected_ids = correct_ids

\* a pop that empties the store
Pop_clears(store, k) == [x \in {} |-> store[x]]

\* dict.pop(k, None) on the store
Pop(store, k) == [x \in DOMAIN store \ {k} |-> store[x]]

\* lines 153-157 with an answer of its own for a body without captcha_id
verify_L156_names_missing_id(t) ==
    /\ pc[t] = "idle"
    /\ \E body \in Bodies("verify") :
        /\ data' = [data EXCEPT ![t] = body]
        /\ IF body.captcha_id = NoneId
           THEN /\ result' = [result EXCEPT ![t] =
                        <<[status |-> 400,
                           body |-> [success |-> FALSE,
                                     error |-> <<"Missing captcha_id.">>]]>>]
                /\ pc' = [pc EXCEPT ![t] = "done"]
           ELSE IF body.captcha_id \notin DOMAIN ACTIVE_CHALLENGES
           THEN /\ result' = [result EXCEPT ![t] = <<InvalidCaptcha>>]
                /\ pc' = [pc EXCEPT ![t] = "done"]
           ELSE /\ pc' = [pc EXCEPT ![t] = "L159"]
                /\ UNCHANGED result
    /\ UNCHANGED <<disk, DEFAULT_DIFFICULTY, ACTIVE_CHALLENGES, now, uuid_next,
                   pow_issued, captcha_log, record>>

\* POST /api/verify, lines 153-157: parse the body, test membership
verify_L156(t) ==
    /\ pc[t] = "idle"
    /\ \E body \in Bodies("verify") :
        /\ data' = [data EXCEPT ![t] = body]
        /\ IF body.captcha_id = NoneId \/ body.captcha_id \notin DOMAIN ACTIVE_CHALLENGES
           THEN /\ result' = [result EXCEPT ![t] = <<InvalidCaptcha>>]
                /\ pc' = [pc EXCEPT ![t] = "done"]
           ELSE /\ pc' = [pc EXCEPT ![t] = "L159"]
                /\ UNCHANGED result
    /\ UNCHANGED <<disk, DEFAULT_DIFFICULTY, ACTIVE_CHALLENGES, now, uuid_next,
                   pow_issued, captcha_log, record>>

\* lines 159-180: read the record, then the count, nonce and PoW checks
verify_L159(t) ==
    /\ pc[t] = "L159"
    /\ IF data[t].captcha_id \notin DOMAIN ACTIVE_CHALLENGES
       THEN \* .get returned None
            /\ result' = [result EXCEPT ![t] = <<InvalidCaptcha>>]
            /\ pc' = [pc EXCEPT ![t] = "done"]
            /\ UNCHANGED record
       ELSE LET rec == ACTIVE_CHALLENGES[data[t].captcha_id]
                failed == verify_checks(rec, data[t], now)
            IN  /\ record' = [record EXCEPT ![t] = <<rec>>]
                /\ IF failed # <<>>
                   THEN /\ result' = [result EXCEPT ![t] = failed]
                        /\ pc' = [pc EXCEPT ![t] = "done"]
                   ELSE /\ pc' = [pc EXCEPT ![t] = "L183"]
                        /\ UNCHANGED result
    /\ UNCHANGED <<disk, DEFAULT_DIFFICULTY, ACTIVE_CHALLENGES, now, uuid_next,
                   pow_issued, captcha_log, data>>

\* lines 182-186 with the pop made only when the answer matches
verify_L183_pops_on_success(t) ==
    /\ pc[t] = "L183"
    /\ ACTIVE_CHALLENGES' =
            IF answer_matches(data[t].selected_ids, record[t][1].correct_ids)
            THEN Pop(ACTIVE_CHALLENGES, data[t].captcha_id)
            ELSE ACTIVE_CHALLENGES
    /\ result' = [result EXCEPT ![t] =
            <<[status |-> 200,
               body |-> [success |-> answer_matches(data[t].selected_ids,
                                                    record[t][1].correct_ids)]]>>]
    /\ pc' = [pc EXCEPT ![t] = "done"]
    /\ UNCHANGED <<disk, DEFAULT_DIFFICULTY, now, uuid_next, pow_issued,
                   captcha_log, data, record>>

\* lines 182-186: pop the record, compare the answer
verify_L183(t) ==
    /\ pc[t] = "L183"
    /\ ACTIVE_CHALLENGES' = Pop(ACTIVE_CHALLENGES, data[t].captcha_id)
    /\ result' = [result EXCEPT ![t] =
            <<[status |-> 200,
               body |-> [success |-> answer_matches(data[t].selected_ids,
                                                    record[t][1].correct_ids)]]>>]
    /\ pc' = [pc EXCEPT ![t] = "done"]
    /\ UNCHANGED <<disk, DEFAULT_DIFFICULTY, now, uuid_next, pow_issued,
                   captcha_log, data, record>>

\* POST /api/check, lines 191-199: parse the body, test membership
check_L194(t) ==
    /\ pc[t] = "idle"
    /\ \E body \in Bodies("check") :
        /\ data' = [data EXCEPT ![t] = body]
        /\ IF body.captcha_id = NoneId \/ body.captcha_id \notin DOMAIN ACTIVE_CHALLENGES
           THEN /\ result' = [result EXCEPT ![t] =
                        <<[status |-> 200,
                           body |-> [valid |-> FALSE, correct |-> FALSE,
                                     error |-> <<"Invalid or expired captcha.">>]]>>]
                /\ pc' = [pc EXCEPT ![t] = "done"]
           ELSE /\ pc' = [pc EXCEPT ![t] = "L201"]
                /\ UNCHANGED result
    /\ UNCHANGED <<disk, DEFAULT_DIFFICULTY, ACTIVE_CHALLENGES, now, uuid_next,
                   pow_issued, captcha_log, record>>

\* lines 201-211 reading the record with pop instead of the subscript
check_L201_pops(t) ==
    /\ pc[t] = "L201"
    /\ IF data[t].captcha_id \notin DOMAIN ACTIVE_CHALLENGES
       THEN /\ result' = [result EXCEPT ![t] =
                    <<[status |-> 500, body |-> [raised |-> "KeyError"]]>>]
            /\ UNCHANGED <<record, ACTIVE_CHALLENGES>>
       ELSE LET rec == ACTIVE_CHALLENGES[data[t].captcha_id] IN
            /\ record' = [record EXCEPT ![t] = <<rec>>]
            /\ ACTIVE_CHALLENGES' = Pop(ACTIVE_CHALLENGES, data[t].captcha_id)
            /\ result' = [result EXCEPT ![t] =
                    <<[status |-> 200,
                       body |-> [valid |-> TRUE,
                                 correct |-> data[t].selected_ids = rec.correct_ids,
                                 pow |-> [challenge |-> rec.pow_challenge,
                                          difficulty |-> rec.difficulty,
                                          algo |-> "sha256-prefix-zeros"]]]>>]
    /\ pc' = [pc EXCEPT ![t] = "done"]
    /\ UNCHANGED <<disk, DEFAULT_DIFFICULTY, now, uuid_next, pow_issued,
                   captcha_log, data>>

\* lines 201-211: subscript the store (KeyError when the id is gone), answer
check_L201(t) ==
    /\ pc[t] = "L201"
    /\ IF data[t].captcha_id \notin DOMAIN ACTIVE_CHALLENGES
       THEN \* uncaught KeyError: Flask answers 500
            /\ result' = [result EXCEPT ![t] =
                    <<[status |-> 500, body |-> [raised |-> "KeyError"]]>>]
            /\ UNCHANGED record
       ELSE LET rec == ACTIVE_CHALLENGES[data[t].captcha_id] IN
            /\ record' = [record EXCEPT ![t] = <<rec>>]
            /\ result' = [result EXCEPT ![t] =
                    <<[status |-> 200,
                       body |-> [valid |-> TRUE,
                                 correct |-> data[t].selected_ids = rec.correct_ids,
                                 pow |-> [challenge |-> rec.pow_challenge,
                                          difficulty |-> rec.difficulty,
                                          algo |-> "sha256-prefix-zeros"]]]>>]
    /\ pc' = [pc EXCEPT ![t] = "done"]
    /\ UNCHANGED <<disk, DEFAULT_DIFFICULTY, ACTIVE_CHALLENGES, now, uuid_next,
                   pow_issued, captcha_log, data>>

\* the thread that answered serves the next request: its locals are gone
next_request(t) ==
    /\ pc[t] = "done"
    /\ pc' = [pc EXCEPT ![t] = "idle"]
    /\ data' = [data EXCEPT ![t] = NoData]
    /\ record' = [record EXCEPT ![t] = <<>>]
    /\ result' = [result EXCEPT ![t] = <<>>]
    /\ UNCHANGED <<disk, DEFAULT_DIFFICULTY, ACTIVE_CHALLENGES, now, uuid_next,
                   pow_issued, captcha_log>>

\* time.time() advances by one tick (180 s).  A handler is a bounded in-memory
\* computation and returns within the tick it started in; only PyCap.verify,
\* called in lines 159-180, reads the clock.
Tick ==
    /\ now < MaxTime
    /\ \A t \in Threads : pc[t] \in {"idle", "done"}
    /\ now' = now + 1
    /\ UNCHANGED <<disk, DEFAULT_DIFFICULTY, ACTIVE_CHALLENGES, uuid_next,
                   pow_issued, captcha_log, pc, data, record, result>>

----------------------------------------------------------------------------
(* Specifications *)

\* file names
PNG(stem) == <<stem, ".png">>

\* the image root of the request-handling specification: two categories, one
\* with two images and one with one
SmallDisk ==
    [isdir |-> TRUE,
     entries |-> << [name |-> <<"cat", "_illusion">>, isdir |-> TRUE,
                     files |-> <<PNG("a"), PNG("b")>>],
                    [name |-> <<"dog">>, isdir |-> TRUE, files |-> <<PNG("c")>>] >>]

EmptyStore == [x \in {} |-> 0]

InitRequests ==
    /\ ACTIVE_CHALLENGES = EmptyStore
    /\ now = 0
    /\ uuid_next = 1
    /\ pow_issued = EmptyStore
    /\ captcha_log = <<>>
    /\ pc = [t \in Threads |-> "idle"]
    /\ data = [t \in Threads |-> NoData]
    /\ record = [t \in Threads |-> <<>>]
    /\ result = [t \in Threads |-> <<>>]

Init ==
    /\ disk = SmallDisk
    /\ DEFAULT_DIFFICULTY = 5
    /\ InitRequests

Next ==
    \/ api_captcha
    \/ \E t \in Threads : verify_L156(t)
    \/ \E t \in Threads : verify_L159(t)
    \/ \E t \in Threads : verify_L183(t)
    \/ \E t \in Threads : check_L194(t)
    \/ \E t \in Threads : check_L201(t)
    \/ \E t \in Threads : next_request(t)
    \/ Tick

Spec == Init /\ [][Next]_vars

(* One request at a time: a single thread serves the requests in sequence *)

NextSeq ==
    \/ api_captcha
    \/ verify_L156("t1")
    \/ verify_L159("t1")
    \/ verify_L183("t1")
    \/ check_L194("t1")
    \/ check_L201("t1")
    \/ next_request("t1")
    \/ Tick

SpecSeq == Init /\ [][NextSeq]_vars

(* Requests in sequence on a server that keeps running: the clock advances   *)
(* and a handler that has started runs to its return.  Whether a request    *)
(* arrives is the client's choice, so no fairness is put on the first step  *)
(* of a handler or on api_captcha.                                         *)

SpecSeqFair ==
    /\ Init
    /\ [][NextSeq]_vars
    /\ WF_vars(Tick)
    /\ WF_vars(verify_L159("t1"))
    /\ WF_vars(verify_L183("t1"))
    /\ WF_vars(check_L201("t1"))

\* the first request served is a GET /api/captcha
first_captcha ==
    /\ captcha_log = <<>>
    /\ api_captcha

(* One puzzle, one client, every configured difficulty: DEFAULT_DIFFICULTY  *)
(* (server.py:41) is the one place the deployment sets the difficulty;     *)
(* PY_CAP is built from it.                                                *)

Difficulties == 0..MaxDifficulty

InitConfig ==
    /\ disk = SmallDisk
    /\ DEFAULT_DIFFICULTY \in Difficulties
    /\ InitRequests

NextConfig ==
    \/ first_captcha
    \/ verify_L156("t1")
    \/ verify_L159("t1")
    \/ verify_L183("t1")
    \/ next_request("t1")
    \/ Tick

SpecConfig == InitConfig /\ [][NextConfig]_vars

(* Two puzzles in the store, requests in sequence *)

\* a second GET /api/captcha
second_captcha ==
    /\ Len(captcha_log) = 1
    /\ captcha_request(Tokens)

NextPair ==
    \/ first_captcha
    \/ second_captcha
    \/ verify_L156("t1")
    \/ verify_L159("t1")
    \/ verify_L183("t1")
    \/ check_L194("t1")
    \/ check_L201("t1")
    \/ next_request("t1")
    \/ Tick

SpecPair == Init /\ [][NextPair]_vars

(* PyCap.verify as a function of its arguments and the clock *)

PowNonces == {<<n>> : n \in 0..7}

\* one call PY_CAP.verify(ch, nonce) on thread t, for any Challenge object
pow_verify(t) ==
    /\ pc[t] = "idle"
    /\ \E ch \in [challenge : Tokens, difficulty : Difficulties, expires_at : 0..MaxTime] :
       \E nonce \in PowNonces :
        /\ data' = [data EXCEPT ![t] =
                [op |-> "pow", captcha_id |-> NoneId, selected_ids |-> {},
                 nonce |-> nonce, time |-> now]]
        /\ record' = [record EXCEPT ![t] = <<ch>>]
        /\ result' = [result EXCEPT ![t] = <<verify(PY_CAP, ch, nonce, now)>>]
    /\ pc' = [pc EXCEPT ![t] = "done"]
    /\ UNCHANGED <<disk, DEFAULT_DIFFICULTY, ACTIVE_CHALLENGES, now, uuid_next,
                   pow_issued, captcha_log>>

NextPow ==
    \/ pow_verify("t1")
    \/ Tick

SpecPow == Init /\ [][NextPow]_vars

(* One issuance over each image root *)

TXT(stem) == <<stem, ".txt">>
Dir(name, files) == [name |-> name, isdir |-> TRUE, files |-> files]
File(name) == [name |-> name, isdir |-> FALSE, files |-> <<>>]

SamplerDisks ==
    { \* IMAGES_ROOT is no directory
      [isdir |-> FALSE, entries |-> <<>>],
      \* no directory holds an image
      [isdir |-> TRUE,
       entries |-> <<File(<<"README">>), Dir(<<"empty">>, <<>>),
                     Dir(<<"notes">>, <<TXT("x")>>)>>],
      \* three cats and four dogs
      [isdir |-> TRUE,
       entries |-> <<Dir(<<"cats">>, <<PNG("a"), PNG("b"), TXT("list"), PNG("c")>>),
                     Dir(<<"empty">>, <<>>),
                     Dir(<<"dogs">>, <<PNG("d"), PNG("e"), PNG("f"), PNG("g")>>)>>],
      \* one category of five images
      [isdir |-> TRUE,
       entries |-> <<Dir(<<"old", "_", "man", "_illusion">>,
                         <<PNG("a"), <<"b", ".PNG">>, <<"c", ".jpeg">>, PNG("d"),
                           <<"e", ".webp">>, <<"f", ".gif">>>>)>>],
      \* a category of one image beside a category of five
      [isdir |-> TRUE,
       entries |-> <<Dir(<<"one">>, <<PNG("a")>>),
                     Dir(<<"five">>, <<PNG("a"), PNG("b"), PNG("c"), PNG("d"),
                                       PNG("e")>>)>>],
      \* three categories
      [isdir |-> TRUE,
       entries |-> <<Dir(<<"x">>, <<PNG("a"), PNG("b")>>),
                     Dir(<<"y">>, <<PNG("c")>>),
                     File(<<"z">>),
                     Dir(<<"w">>, <<PNG("d"), PNG("e"), PNG("f")>>)>>] }

InitSampler ==
    /\ disk \in SamplerDisks
    /\ DEFAULT_DIFFICULTY = 5
    /\ InitRequests

NextSampler == first_captcha

SpecSampler == InitSampler /\ [][NextSampler]_vars

(* One issuance over image roots whose distractors can run short *)

ShortageDisks ==
    { \* three cats and four dogs: short for two dogs to select
      [isdir |-> TRUE,
       entries |-> <<Dir(<<"cats">>, <<PNG("a"), PNG("b"), PNG("c")>>),
                     Dir(<<"dogs">>, <<PNG("d"), PNG("e"), PNG("f"), PNG("g")>>)>>],
      \* a category of seven images beside a category of one
      [isdir |-> TRUE,
       entries |-> <<Dir(<<"seven">>, <<PNG("a"), PNG("b"), PNG("c"), PNG("d"),
                                        PNG("e"), PNG("f"), PNG("g")>>),
                     Dir(<<"one">>, <<PNG("h")>>)>>] }

InitShortage ==
    /\ disk \in ShortageDisks
    /\ DEFAULT_DIFFICULTY = 5
    /\ InitRequests

\* the first request served is a GET /api/captcha; the PoW token, which the
\* grid does not depend on, is held to one value
shortage_captcha ==
    /\ captcha_log = <<>>
    /\ captcha_request({<<1>>})

NextShortage == shortage_captcha

SpecShortage == InitShortage /\ [][NextShortage]_vars

----------------------------------------------------------------------------
(* Vocabulary of the properties *)

\* thread t has returned from api_verify
VerifyDone(t) == pc[t] = "done" /\ data[t].op = "verify"

\* thread t's handler read a record from the store (its local `record`)
Observed(t) == record[t] # <<>>

\* the response thread t returned
Resp(t) == result[t][1]

\* thread t's api_verify got past the count, nonce and PoW checks
PassedChecks(t) ==
    /\ data[t].op = "verify"
    /\ \/ pc[t] = "L183"
       \/ pc[t] = "done" /\ Resp(t).status = 200

\* number of leading zero hex digits of a digest
RECURSIVE LeadingZeros(_)
LeadingZeros(digest) ==
    IF digest = <<>> \/ Head(digest) # 0 THEN 0 ELSE 1 + LeadingZeros(Tail(digest))

\* the digest of a submitted nonce for a stored record has at least d leading zeros
DigestMeets(rec, nonce, d) ==
    LeadingZeros(_hash(rec.pow_challenge \o <<Colon>> \o nonce)) >= d

----------------------------------------------------------------------------
(* Properties of request handling (C1-C3 under Spec, C4-C5 under SpecSeq) *)

\* C1: after any verify request that named a stored id has returned, whatever
\* its outcome, the record of that id is no longer in the store.
C1_VerifyConsumesRecord ==
    \A t \in Threads :
        (VerifyDone(t) /\ Observed(t))
            => data[t].captcha_id \notin DOMAIN ACTIVE_CHALLENGES

\* C2: of the verify requests in flight for one id at most one gets past the
\* lookup to the checks on the record; no two of them pass the checks, so no
\* two of them return success.
C2_SingleObserver ==
    \A t1, t2 \in Threads :
        (t1 # t2 /\ data[t1].captcha_id = data[t2].captcha_id)
            => ~(PassedChecks(t1) /\ PassedChecks(t2))

\* C3: a verify request whose PoW check runs after the expires_at given at
\* issuance (issue time + ttl) does not pass it, and with a matching selection
\* count and a nonce it is answered with the PoW-expired reason.
C3_ExpiredIsRejected ==
    [][\A t \in Threads :
        (/\ pc[t] = "L159"
         /\ pc'[t] # "L159"
         /\ data[t].captcha_id \in DOMAIN ACTIVE_CHALLENGES
         /\ now > pow_issued[data[t].captcha_id].expires_at)
        => /\ pc'[t] = "done"
           /\ result'[t][1].body.success = FALSE
           /\ (/\ Cardinality(data[t].selected_ids)
                    = Cardinality(ACTIVE_CHALLENGES[data[t].captcha_id].correct_ids)
               /\ data[t].nonce # <<>>)
              => result'[t][1].body.error = <<"Challenge expired">>]_vars

\* C4: a verify request returns success = true exactly when it found the id in
\* the store, the selection has as many members as correct_ids, a non-empty
\* nonce came with it, the digest for the stored challenge has the stored
\* difficulty's leading zeros, and the selection is correct_ids; when all but
\* the last hold it returns success = false with no error.
C4_SuccessIffAllChecks ==
    \A t \in Threads :
        VerifyDone(t) =>
            LET sel == data[t].selected_ids
                before ==
                    /\ Observed(t)
                    /\ Cardinality(sel) = Cardinality(record[t][1].correct_ids)
                    /\ data[t].nonce # <<>>
                    /\ DigestMeets(record[t][1], data[t].nonce, record[t][1].difficulty)
            IN  /\ Resp(t).body.success <=> (before /\ sel = record[t][1].correct_ids)
                /\ (before /\ sel # record[t][1].correct_ids)
                    => Resp(t) = [status |-> 200, body |-> [success |-> FALSE]]

C4_Witness ==
    \E t \in Threads :
        /\ VerifyDone(t)
        /\ Resp(t) = [status |-> 200, body |-> [success |-> TRUE]]
        /\ data[t].selected_ids = record[t][1].correct_ids
        /\ Cardinality(data[t].selected_ids) = 2

\* C5: verify reports the first failing check in the order unknown id, count
\* mismatch, missing nonce: a selection of the wrong size gets the count reason
\* whatever its nonce, a selection of the right size without nonce the
\* missing-nonce reason.
C5_FirstFailingCheck ==
    \A t \in Threads :
        VerifyDone(t) =>
            IF ~Observed(t) THEN Resp(t) = InvalidCaptcha
            ELSE LET need == Cardinality(record[t][1].correct_ids)
                     got == Cardinality(data[t].selected_ids)
                 IN  /\ got # need =>
                            /\ Resp(t).status = 400
                            /\ Resp(t).body.success = FALSE
                            /\ Resp(t).body.error =
                                 <<"Must select exactly ", ToString(need),
                                   " images, got ", ToString(got), ".">>
                     /\ (got = need /\ data[t].nonce = <<>>) =>
                            /\ Resp(t).status = 400
                            /\ Resp(t).body.success = FALSE
                            /\ Resp(t).body.error = <<"Missing PoW nonce.">>

\* a wrong-size selection carrying a nonce that meets the difficulty
C5_Witness ==
    \E t \in Threads :
        /\ VerifyDone(t)
        /\ Observed(t)
        /\ Cardinality(data[t].selected_ids) # Cardinality(record[t][1].correct_ids)
        /\ data[t].nonce # <<>>
        /\ DigestMeets(record[t][1], data[t].nonce, record[t][1].difficulty)
        /\ Resp(t).status = 400

----------------------------------------------------------------------------
(* Properties of PyCap.verify (SpecPow) *)

\* C6: on an unexpired challenge of difficulty d, PyCap.verify passes exactly
\* when the digest of challenge ":" nonce has at least d leading zero digits
\* and otherwise gives the insufficient-difficulty reason; on an expired one
\* it gives the expired reason whatever the digest.
C6_PowVerify ==
    \A t \in Threads :
        (pc[t] = "done" /\ data[t].op = "pow") =>
            LET ch == record[t][1]
                zeros == LeadingZeros(_hash(ch.challenge \o <<Colon>> \o data[t].nonce))
            IN  IF data[t].time > ch.expires_at
                THEN Resp(t) = <<FALSE, "Challenge expired">>
                ELSE IF zeros >= ch.difficulty
                THEN Resp(t) = <<TRUE, "ok">>
                ELSE Resp(t) = <<FALSE, "Insufficient PoW difficulty">>

\* a digest with exactly d = 5 leading zeros, checked at the instant of expiry
C6_Witness ==
    \E t \in Threads :
        /\ pc[t] = "done"
        /\ data[t].op = "pow"
        /\ record[t][1].difficulty = 5
        /\ LeadingZeros(_hash(record[t][1].challenge \o <<Colon>> \o data[t].nonce)) = 5
        /\ data[t].time = record[t][1].expires_at
        /\ Resp(t) = <<TRUE, "ok">>

----------------------------------------------------------------------------
(* Properties of the configured difficulty (SpecConfig) *)

\* the difficulty api_captcha returned with captcha id
IssuedDifficulty(id) ==
    (CHOOSE b \in Issued : b.captcha_id = id).pow.difficulty

\* C7: the difficulty a verify request is held to is the one issued and stored
\* for its id: with a right-size selection and a nonce it passes the PoW check
\* exactly when the digest has that many leading zeros; for a puzzle issued
\* with difficulty 0 every non-empty nonce passes and the answer alone decides.
C7_IssuedDifficultyEnforced ==
    \A t \in Threads :
        (/\ VerifyDone(t)
         /\ Observed(t)
         /\ Cardinality(data[t].selected_ids) = Cardinality(record[t][1].correct_ids)
         /\ data[t].nonce # <<>>)
        => LET d == IssuedDifficulty(data[t].captcha_id) IN
           /\ record[t][1].difficulty = d
           /\ Resp(t).status = 200 <=> DigestMeets(record[t][1], data[t].nonce, d)
           /\ d = 0 =>
                Resp(t) = [status |-> 200,
                           body |-> [success |->
                                data[t].selected_ids = record[t][1].correct_ids]]

\* difficulty 0, a digest with no leading zero at all, the right answer
C7_Witness ==
    \E t \in Threads :
        /\ VerifyDone(t)
        /\ Observed(t)
        /\ IssuedDifficulty(data[t].captcha_id) = 0
        /\ ~DigestMeets(record[t][1], data[t].nonce, 1)
        /\ data[t].nonce # <<>>
        /\ Resp(t) = [status |-> 200, body |-> [success |-> TRUE]]

----------------------------------------------------------------------------
(* Properties of issuance (SpecSampler) *)

\* the image root holds a directory with an image file
HasImages(root) ==
    /\ root.isdir
    /\ \E i \in 1..Len(root.entries) :
        /\ root.entries[i].isdir
        /\ \E j \in 1..Len(root.entries[i].files) :
            lower(root.entries[i].files[j][2]) \in ImageExtensions

\* the number of image files in directory `name` of the image root
ImagesOf(root, name) ==
    LET e == root.entries[CHOOSE i \in 1..Len(root.entries) : root.entries[i].name = name]
    IN  Cardinality({j \in 1..Len(e.files) : lower(e.files[j][2]) \in ImageExtensions})

\* the number of image files in the other directories of the image root
ImagesElsewhere(root, name) ==
    Cardinality(UNION {{<<i, j>> : j \in {k \in 1..Len(root.entries[i].files) :
                            lower(root.entries[i].files[k][2]) \in ImageExtensions}} :
                       i \in {k \in 1..Len(root.entries) :
                                root.entries[k].isdir /\ root.entries[k].name # name}})

GridIdsOf(b) == {b.images[j].id : j \in 1..Len(b.images)}

\* the category of the images whose ids are the stored correct_ids
TargetOf(b) ==
    CHOOSE c \in {b.images[j].url[2] : j \in 1..Len(b.images)} :
        \E j \in 1..Len(b.images) :
            /\ b.images[j].id \in ACTIVE_CHALLENGES[b.captcha_id].correct_ids
            /\ b.images[j].url[2] = c

\* C8: for every issued puzzle select_count lies in [min_correct, max_correct]
\* with max_correct = min(4, images in the target category, 6) and
\* min_correct = 2 (1 when max_correct < 2); correct_ids is a subset of the
\* grid's ids and has select_count members.
C8_SelectCountAndCorrectIds ==
    \A b \in Issued :
        LET rec == ACTIVE_CHALLENGES[b.captcha_id]
            n == ImagesOf(disk, TargetOf(b))
            hi == Min(4, Min(n, 6))
            lo == IF hi < 2 THEN 1 ELSE 2
        IN  /\ lo <= b.select_count
            /\ b.select_count <= hi
            /\ rec.correct_ids \subseteq GridIdsOf(b)
            /\ Cardinality(rec.correct_ids) = b.select_count

\* the cap of 4 at work: four to select from a category of five
C8_Witness ==
    \E b \in Issued :
        /\ b.select_count = 4
        /\ ImagesOf(disk, TargetOf(b)) = 5
        /\ Cardinality(ACTIVE_CHALLENGES[b.captcha_id].correct_ids) = 4

\* C9: the grid of every issued puzzle has at most 6 entries, and exactly 6
\* whenever the other categories hold at least 6 - select_count images.
C9_GridSize ==
    \A b \in Issued :
        /\ Len(b.images) <= 6
        /\ ImagesElsewhere(disk, TargetOf(b)) >= 6 - b.select_count
            => Len(b.images) = 6

\* a full grid cut from seven images, the distractor pool just large enough
C9_Witness ==
    \E b \in Issued :
        /\ Len(b.images) = 6
        /\ ImagesOf(disk, TargetOf(b)) + ImagesElsewhere(disk, TargetOf(b)) = 7
        /\ ImagesElsewhere(disk, TargetOf(b)) = 6 - b.select_count

\* C10: over an image root with at least one image, issuance answers 200 with
\* a grid and stores the record, also when the distractors run short; over one
\* with none it answers the no-categories error and stores nothing.
C10_IssuanceNeverFails ==
    \A i \in 1..Len(captcha_log) :
        IF HasImages(disk)
        THEN /\ captcha_log[i].status = 200
             /\ Len(captcha_log[i].body.images) >= 1
             /\ captcha_log[i].body.captcha_id \in DOMAIN ACTIVE_CHALLENGES
        ELSE /\ captcha_log[i] =
                    [status |-> 500,
                     body |-> [error |-> "No categories with images found."]]
             /\ DOMAIN ACTIVE_CHALLENGES = {}

\* the distractor shortage: a short grid returned and its record stored
C10_Witness ==
    \E b \in Issued :
        /\ ImagesElsewhere(disk, TargetOf(b)) < 6 - b.select_count
        /\ Len(b.images) < 6
        /\ b.captcha_id \in DOMAIN ACTIVE_CHALLENGES

\* C11: for every issued puzzle the stored correct_ids is exactly the set of
\* ids of the grid entries whose image is of the target category: each such
\* entry's id is in correct_ids and no other entry's is, whether the filler
\* came from the other categories or, for want of them, from the target one.
C11_CorrectIdsAreTargetEntries ==
    \A b \in Issued :
        \A j \in 1..Len(b.images) :
            b.images[j].url[2] = TargetOf(b)
                <=> b.images[j].id \in ACTIVE_CHALLENGES[b.captcha_id].correct_ids

----------------------------------------------------------------------------
(* Properties of what the responses tell (C12, C14 under Spec) *)

\* thread t has returned from api_check
CheckDone(t) == pc[t] = "done" /\ data[t].op = "check"

\* C12: only a verify request that got past the unknown-id, count, nonce and
\* PoW checks is answered according to whether its selection is correct_ids:
\* two requests to the same endpoint that read the same record and differ only
\* in which images they select (the same id, nonce and number of images), and
\* that are not verify requests past the checks, get the same response.
C12_OnlyPassedVerifyTellsCorrectness ==
    \A t1, t2 \in Threads :
        (/\ pc[t1] = "done" /\ pc[t2] = "done"
         /\ data[t1].op = data[t2].op
         /\ data[t1].captcha_id = data[t2].captcha_id
         /\ data[t1].nonce = data[t2].nonce
         /\ Cardinality(data[t1].selected_ids) = Cardinality(data[t2].selected_ids)
         /\ Observed(t1) /\ Observed(t2)
         /\ record[t1] = record[t2]
         /\ ~PassedChecks(t1) /\ ~PassedChecks(t2))
        => Resp(t1) = Resp(t2)

\* C14: every request is answered with a structured result, none with an
\* exception that escaped its handler, however the requests interleave; a
\* check whose id a verify removes between lines 194 and 201 included.
C14_NoUncaughtException ==
    /\ \A t \in Threads :
        result[t] # <<>> => "raised" \notin DOMAIN Resp(t).body
    /\ \A i \in 1..Len(captcha_log) : "raised" \notin DOMAIN captcha_log[i].body

----------------------------------------------------------------------------
(* Properties of the store under requests in sequence (SpecSeq) *)

\* thread t takes a step of api_check
CheckStep(t) == data'[t].op = "check" /\ pc[t] # "done" /\ pc'[t] # pc[t]

\* C13: a check request changes nothing in the store, whether the id it names
\* is stored or not and whatever it selects: every step of api_check leaves
\* the store holding the records it held, so a stored id is still stored, with
\* the same record, for a later verify.
C13_CheckLeavesStore ==
    [][\A t \in Threads :
        CheckStep(t) =>
            /\ ACTIVE_CHALLENGES' = ACTIVE_CHALLENGES
            /\ (pc'[t] = "done" /\ Observed(t)')
                => /\ data'[t].captcha_id \in DOMAIN ACTIVE_CHALLENGES'
                   /\ ACTIVE_CHALLENGES'[data'[t].captcha_id] = record'[t][1]]_vars

\* a check that found the record and told the selection correct; the record
\* is still stored
C13_Witness ==
    \E t \in Threads :
        /\ CheckDone(t)
        /\ Observed(t)
        /\ Resp(t).body.valid
        /\ Resp(t).body.correct
        /\ data[t].captcha_id \in DOMAIN ACTIVE_CHALLENGES

\* a verify request of thread t named an id that an earlier verify consumed
\* (requests in sequence: an issued id the handler did not find)
NamedConsumed(t) ==
    /\ data[t].captcha_id \in IssuedIds
    /\ ~Observed(t)

\* C15: a verify request with no or an empty id, with an id never issued and
\* with an id issued and since consumed are all answered alike, status 400 and
\* the one reason "Invalid or expired captcha.": the answer does not tell a
\* replay from an unknown id.
C15_UnknownIdsAnsweredAlike ==
    \A t \in Threads :
        (/\ VerifyDone(t)
         /\ \/ data[t].captcha_id = NoneId
            \/ data[t].captcha_id \notin IssuedIds
            \/ NamedConsumed(t))
        => /\ Resp(t).status = 400
           /\ Resp(t).body = [success |-> FALSE,
                              error |-> <<"Invalid or expired captcha.">>]

\* the replay: a verify naming an issued id after a verify consumed it
C15_Witness ==
    \E t \in Threads :
        /\ VerifyDone(t)
        /\ NamedConsumed(t)
        /\ data[t].captcha_id \notin DOMAIN ACTIVE_CHALLENGES
        /\ Resp(t).status = 400

\* the answer of api_check for an id it does not find
CheckNotFound ==
    [status |-> 200,
     body |-> [valid |-> FALSE, correct |-> FALSE,
               error |-> <<"Invalid or expired captcha.">>]]

\* the issued ids no longer in the store
Removed == IssuedIds \ DOMAIN ACTIVE_CHALLENGES

\* C16: the step of a verify request that follows the count, nonce and PoW
\* checks removes the record, whether or not the selection is correct_ids; a
\* removed id never returns to the store, and every later verify or check
\* naming it is answered at once as invalid or unknown.
C16_PassedVerifyRemoves ==
    [][/\ \A t \in Threads :
            (pc[t] = "L183" /\ pc'[t] = "done")
                => data[t].captcha_id \notin DOMAIN ACTIVE_CHALLENGES'
       /\ Removed \subseteq Removed'
       /\ \A t \in Threads :
            (pc[t] = "idle" /\ pc'[t] # "idle" /\ data'[t].captcha_id \in Removed)
                => /\ pc'[t] = "done"
                   /\ result'[t][1] =
                        IF data'[t].op = "verify" THEN InvalidCaptcha ELSE CheckNotFound
                   /\ ACTIVE_CHALLENGES' = ACTIVE_CHALLENGES]_vars

\* a verify with a nonce that meets the difficulty and a wrong selection of
\* the right size: answered success = false, the record gone
C16_Witness ==
    \E t \in Threads :
        /\ VerifyDone(t)
        /\ Observed(t)
        /\ Resp(t) = [status |-> 200, body |-> [success |-> FALSE]]
        /\ data[t].selected_ids # record[t][1].correct_ids
        /\ data[t].captcha_id \in Removed

----------------------------------------------------------------------------
(* Property of abandoned puzzles (SpecSeqFair) *)

\* uuid4() is called once per grid entry (at most 6) and once for captcha_id
UuidsPerCaptcha == 7

\* the values captcha_id can take within the issuance bound
CaptchaIds == 1..(UuidsPerCaptcha * MaxIssue)

\* the record of id is stored and the expires_at issued with it has passed
StoredExpired(id) ==
    /\ id \in DOMAIN ACTIVE_CHALLENGES
    /\ now > pow_issued[id].expires_at

\* C17: a stored record whose expires_at has passed is eventually removed
\* from the store, also when no verify request names its id.
C17_ExpiredEventuallyRemoved ==
    \A id \in CaptchaIds :
        StoredExpired(id) ~> (id \notin DOMAIN ACTIVE_CHALLENGES)

----------------------------------------------------------------------------
(* Property of the stored records (SpecPair) *)

\* the response of api_captcha that returned captcha id
IssuedBody(id) == CHOOSE b \in Issued : b.captcha_id = id

\* the record stored under id holds what was issued with it: the challenge and
\* difficulty returned, and select_count ids of the grid returned
AsIssued(store, id) ==
    /\ store[id].pow_challenge = IssuedBody(id).pow.challenge
    /\ store[id].pow_challenge = pow_issued[id].challenge
    /\ store[id].difficulty = IssuedBody(id).pow.difficulty
    /\ store[id].correct_ids \subseteq GridIdsOf(IssuedBody(id))
    /\ Cardinality(store[id].correct_ids) = IssuedBody(id).select_count

\* thread t takes a step of api_verify or api_check
RequestStep(t) ==
    /\ pc[t] # "done"
    /\ pc'[t] # pc[t]
    /\ data'[t].op \in {"verify", "check"}

\* C18: no step changes a record that stays in the store; a record is stored
\* with the values issued; a step of a verify or check request naming one id
\* leaves every other id stored, with its record.
C18_StoredRecordsImmutable ==
    [][/\ \A id \in DOMAIN ACTIVE_CHALLENGES \cap DOMAIN ACTIVE_CHALLENGES' :
            ACTIVE_CHALLENGES'[id] = ACTIVE_CHALLENGES[id]
       /\ \A id \in DOMAIN ACTIVE_CHALLENGES' \ DOMAIN ACTIVE_CHALLENGES :
            AsIssued(ACTIVE_CHALLENGES, id)'
       /\ \A t \in Threads :
            RequestStep(t) =>
                \A other \in DOMAIN ACTIVE_CHALLENGES \ {data'[t].captcha_id} :
                    /\ other \in DOMAIN ACTIVE_CHALLENGES'
                    /\ ACTIVE_CHALLENGES'[other] = ACTIVE_CHALLENGES[other]]_vars

\* a verify past the checks has consumed one of two stored records; the other
\* is stored as issued
C18_Witness ==
    \E t \in Threads :
        /\ VerifyDone(t)
        /\ Resp(t).status = 200
        /\ \E other \in DOMAIN ACTIVE_CHALLENGES :
            /\ other # data[t].captcha_id
            /\ AsIssued(ACTIVE_CHALLENGES, other)
            /\ ACTIVE_CHALLENGES[other].pow_challenge # record[t][1].pow_challenge

----------------------------------------------------------------------------
(* Properties of the grid's entries (C19 under SpecSampler, C20 under SpecShortage) *)

\* no directory of the image root lists a file name twice
NoRepeatedFile(root) ==
    \A i \in 1..Len(root.entries) :
        \A j, k \in 1..Len(root.entries[i].files) :
            j # k => root.entries[i].files[j] # root.entries[i].files[k]

\* the distractor shortage: the other categories hold fewer images than the
\* grid of b has places left
Shortage(b) == ImagesElsewhere(disk, TargetOf(b)) < 6 - b.select_count

\* C19: over an image root that lists no file twice, no two entries of an
\* issued grid show the same (category, image) and no two carry the same id,
\* whether the filler came from the other categories or from the target one.
C19_GridEntriesDistinct ==
    NoRepeatedFile(disk) =>
        \A b \in Issued :
            \A i, j \in 1..Len(b.images) :
                i # j => /\ b.images[i].url # b.images[j].url
                         /\ b.images[i].id # b.images[j].id

\* the shortage: a grid whose filler is of the target category, all distinct
C19_Witness ==
    \E b \in Issued :
        /\ Shortage(b)
        /\ Len(b.images) > b.select_count
        /\ Cardinality({b.images[j].url : j \in 1..Len(b.images)}) = Len(b.images)
        /\ \A j \in 1..Len(b.images) : b.images[j].url[2] = TargetOf(b)

\* C20: when the other categories hold fewer than 6 - select_count images the
\* grid is made of the target category alone: it has min(6, images in the
\* target category) entries, none of another category, also where the other
\* categories' images would have brought it closer to 6.
C20_ShortageFillsFromTarget ==
    \A b \in Issued :
        Shortage(b) =>
            /\ Len(b.images) = Min(6, ImagesOf(disk, TargetOf(b)))
            /\ \A j \in 1..Len(b.images) : b.images[j].url[2] = TargetOf(b)

\* four dogs shown and three cats left out of a grid of six places
C20_Witness ==
    \E b \in Issued :
        /\ Shortage(b)
        /\ Len(b.images) = 4
        /\ ImagesOf(disk, TargetOf(b)) = 4
        /\ ImagesElsewhere(disk, TargetOf(b)) = 3

====
